---------------------------- MODULE Spec2Model ----------------------------
(***************************************************************************)
(* WEKO storage provider of waterbutler (waterbutler/providers/weko/       *)
(* provider.py) as a state machine over a WEKO repository (indices, items) *)
(* reached through the client shim, together with the metadata model that  *)
(* tests/providers/nextcloud/test_metadata.py exercises.                   *)
(*                                                                         *)
(* Python strings are sequences of one-character strings, so that          *)
(* str.split, str.startswith, slicing and str() are computed, not assumed. *)
(***************************************************************************)
EXTENDS Integers, Sequences, FiniteSets, TLC

VARIABLES
    indices,    \* the repository's indices, in the order the backend lists them
    items,      \* the repository's items, in the order the backend lists them
    nextItem,   \* the item id the backend assigns to the next accepted post
    last,       \* the last completed call of the adapter: arguments, backend calls, outcome
    up,         \* the upload calls, one per caller: position, locals, outcome
    metadata_cache  \* self._metadata_cache

vars == <<indices, items, nextItem, last, up, metadata_cache>>

(***************************************************************************)
(* Bounds of the model                                                     *)
(***************************************************************************)
MaxItems == 2      \* items other clients post to the repository in one behaviour

(***************************************************************************)
(* Python string primitives                                                *)
(***************************************************************************)
None == "None"

Digits == <<"0", "1", "2", "3", "4", "5", "6", "7", "8", "9">>

RECURSIVE str(_)
str(n) == IF n < 10 THEN <<Digits[n + 1]>>
          ELSE str(n \div 10) \o <<Digits[(n % 10) + 1]>>

RECURSIVE split(_, _)
split(s, sep) ==
    IF \A k \in 1..Len(s) : s[k] # sep
    THEN <<s>>
    ELSE LET k == CHOOSE i \in 1..Len(s) :
                      s[i] = sep /\ \A j \in 1..(i - 1) : s[j] # sep
         IN  <<SubSeq(s, 1, k - 1)>> \o split(SubSeq(s, k + 1, Len(s)), sep)

RECURSIVE join(_, _)
join(parts, sep) ==
    IF parts = <<>> THEN <<>>
    ELSE IF Len(parts) = 1 THEN parts[1]
    ELSE parts[1] \o <<sep>> \o join(Tail(parts), sep)

startswith(s, prefix) ==
    Len(s) >= Len(prefix) /\ SubSeq(s, 1, Len(prefix)) = prefix

\* s[n:]
SliceFrom(s, n) == SubSeq(s, n + 1, Len(s))

\* seq[-k] is defined when the sequence has at least k elements
HasFromEnd(seq, k) == Len(seq) >= k
FromEnd(seq, k) == seq[Len(seq) - k + 1]

\* [x for x in seq if Test(x)]
RECURSIVE SelectIdx(_, _, _)
SelectIdx(seq, Test(_), k) ==
    IF k > Len(seq) THEN <<>>
    ELSE (IF Test(seq[k]) THEN <<seq[k]>> ELSE <<>>) \o SelectIdx(seq, Test, k + 1)

Filter(seq, Test(_)) == SelectIdx(seq, Test, 1)

Map(seq, F(_)) == [k \in 1..Len(seq) |-> F(seq[k])]

ItemWord == <<"i", "t", "e", "m">>

(***************************************************************************)
(* WaterButlerPath                                                         *)
(***************************************************************************)
Path(parts, is_dir, identifier) ==
    [parts |-> parts, is_dir |-> is_dir, identifier |-> identifier, revision |-> None]

is_root(p) == p.parts = <<>>

\* WaterButlerPath.path: relative to the storage root, no leading separator,
\* '' for the root, a trailing separator for a folder
PathStr(p) ==
    IF is_root(p) THEN <<>>
    ELSE join(p.parts, "/") \o (IF p.is_dir THEN <<"/">> ELSE <<>>)

NoPath == Path(<<<<"-">>>>, FALSE, None)

(***************************************************************************)
(* The repository behind the client shim (waterbutler.providers.weko.client)*)
(***************************************************************************)
\* settings['index_id']: the index the provider is rooted at, a string, so
\* that str(self.index_id) is index_id itself
index_id == <<"1">>
FileIds == {"f1", "f2"}

Index(identifier, parentIdentifier) ==
    [kind |-> "index", identifier |-> identifier, parentIdentifier |-> parentIdentifier]

Item(id, index, fileId, indexed) ==
    [kind |-> "item", id |-> id, index |-> index, fileId |-> fileId, indexed |-> indexed]

IndexUrl(n) == [kind |-> "index", id |-> n]
ItemUrl(n) == [kind |-> "item", id |-> n]
NoUrl == [kind |-> "none", id |-> 0]

\* entry.about: the locator of an entry of a listing
about(e) == IF e.kind = "index" THEN IndexUrl(e.identifier) ELSE ItemUrl(e.id)

\* client.itemId(url): the item id a locator carries, as a string
itemId(url) == IF url.kind = "item" THEN str(url.id) ELSE <<None>>

\* A backend call as the adapter issued it: the function, its arguments and,
\* where a claim is about it, what the call returned
Call(fn, a, b) == [fn |-> fn, a |-> a, b |-> b]

\* client.get_all_indices(connection): the listing, stamped with the position
\* of the call among the backend calls of the adapter call that fetched it
get_all_indices(idx, stamp) == [seq |-> idx, stamp |-> stamp]

\* client.get_items(connection, index): the entries the backend lists under
\* an index: its child indices, then the items it has indexed
get_items(idx, its, index) ==
    Filter(idx, LAMBDA i : i.parentIdentifier = index.identifier)
      \o Filter(its, LAMBDA it : it.index = index.identifier /\ it.indexed)

\* client.update_index(connection, identifier, relation=parent)
update_index(idx, identifier, relation) ==
    [k \in 1..Len(idx) |->
        IF idx[k].identifier = identifier
        THEN [idx[k] EXCEPT !.parentIdentifier = relation]
        ELSE idx[k]]

\* client.delete(connection, sword_url): the backend drops the item the
\* locator's item_id names
client_delete(its, item_id) == Filter(its, LAMBDA it : str(it.id) # item_id)

\* client.post(connection, index_id, f, size): the backend stores a new item
\* under a fresh id
client_post(its, id, index, fileId, indexed) ==
    Append(its, Item(id, index, fileId, indexed))

(***************************************************************************)
(* Metadata objects of the provider (waterbutler.providers.weko.metadata)  *)
(***************************************************************************)
WEKOItemMetadata(item, index, listing) ==
    [kind |-> "file", about |-> about(item), parent |-> index.identifier,
     stamp |-> listing.stamp]

WEKOIndexMetadata(index, listing) ==
    [kind |-> "folder", about |-> about(index), parent |-> index.parentIdentifier,
     stamp |-> listing.stamp]

WEKORevision(version) == [version |-> version]

\* What a call of the adapter did: its arguments, the backend calls it issued
\* in order, how it ended (ok or the exception it raised) and what it returned
Result(op, path, dest, opts, calls, outcome, code, value) ==
    [op |-> op, path |-> path, dest |-> dest, opts |-> opts, calls |-> calls,
     outcome |-> outcome, code |-> code, value |-> value]

NoOpts == <<None, None>>
NoResult == Result("none", NoPath, NoPath, NoOpts, <<>>, "none", 0, <<>>)

(***************************************************************************)
(* download (provider.py 76-100)                                           *)
(***************************************************************************)
Revisions == {None, "latest"}
Ranges == {None, "0-1"}
Statuses == {200, 404}

\* make_request('GET', ..., range=range, expects=(200, 206), throws=DownloadError)
make_request(identifier, range, status) ==
    [calls |-> <<Call("GET", identifier, range)>>,
     outcome |-> IF status \in {200, 206} THEN "ok" ELSE "DownloadError"]

downloadUnchecked(path, revision, range, status) ==
    LET r == make_request(path.identifier, range, status)
    IN  Result("download", path, NoPath, <<revision, range>>, r.calls, r.outcome, 0, <<>>)

download(path, revision, range, status) ==
    IF path.identifier = None
    THEN Result("download", path, NoPath, <<revision, range>>, <<>>, "NotFoundError", 0, <<>>)
    ELSE LET r == make_request(path.identifier, range, status)
         IN  Result("download", path, NoPath, <<revision, range>>, r.calls, r.outcome, 0, <<>>)

(***************************************************************************)
(* delete (provider.py 134-156)                                            *)
(***************************************************************************)
\* The value of delete: the call's result and the items the backend holds after it
DeleteEnd(path, calls, outcome, its) ==
    [res |-> Result("delete", path, NoPath, NoOpts, calls, outcome, 0, <<>>),
     items |-> its]

\* provider.py 141-156 with the delete call issued for the id the path spells,
\* found in the listing or not
deleteBlind(path, idx, its) ==
    LET segs == split(PathStr(path), "/")
        c1 == <<Call("get_all_indices", 0, 0)>>
    IN  IF ~HasFromEnd(segs, 2) THEN DeleteEnd(path, <<>>, "IndexError", its)
        ELSE
        LET parent == FromEnd(segs, 2)
            item_id == SliceFrom(FromEnd(segs, 1), 4)
            listing == get_all_indices(idx, 1)
            found == Filter(listing.seq, LAMBDA i : str(i.identifier) = parent)
        IN  IF found = <<>> THEN DeleteEnd(path, c1, "IndexError", its)
            ELSE
            LET index == found[1]
                c2 == Append(c1, Call("get_items", index.identifier,
                                       get_items(idx, its, index)))
            IN  DeleteEnd(path, Append(c2, Call("delete", item_id, 0)), "ok",
                          client_delete(its, item_id))

\* provider.py 141-156: the path taken apart, the listings, the delete call
deleteLookup(path, idx, its) ==
    LET segs == split(PathStr(path), "/")
        c1 == <<Call("get_all_indices", 0, 0)>>
    IN  IF ~HasFromEnd(segs, 2) THEN DeleteEnd(path, <<>>, "IndexError", its)
        ELSE
        LET parent == FromEnd(segs, 2)
            item_id == SliceFrom(FromEnd(segs, 1), 4)
            listing == get_all_indices(idx, 1)
            found == Filter(listing.seq, LAMBDA i : str(i.identifier) = parent)
        IN  IF found = <<>> THEN DeleteEnd(path, c1, "IndexError", its)
            ELSE
            LET index == found[1]
                c2 == Append(c1, Call("get_items", index.identifier,
                                       get_items(idx, its, index)))
                del == Filter(get_items(idx, its, index),
                              LAMBDA e : itemId(about(e)) = item_id)
            IN  IF del = <<>> THEN DeleteEnd(path, c2, "IndexError", its)
                ELSE DeleteEnd(path, Append(c2, Call("delete", item_id, 0)), "ok",
                               client_delete(its, item_id))

\* delete without the assertion of line 140
deleteUnasserted(path, idx, its) == deleteLookup(path, idx, its)

delete(path, idx, its) ==
    LET segs == split(PathStr(path), "/")
    IN  IF ~startswith(FromEnd(segs, 1), ItemWord)
        THEN DeleteEnd(path, <<>>, "AssertionError", its)
        ELSE deleteLookup(path, idx, its)

(***************************************************************************)
(* metadata (provider.py 158-186)                                          *)
(***************************************************************************)
MetaEnd(path, calls, outcome, code, value) ==
    Result("metadata", path, NoPath, NoOpts, calls, outcome, code, value)

\* provider.py 176-186 with every entry of the index's listing turned into a
\* file entry, those of its child indices too
metadataListingUnfiltered(path, parent, listing, idx, its) ==
    LET c1 == <<Call("get_all_indices", 0, listing.seq)>>
        found == Filter(listing.seq, LAMBDA i : str(i.identifier) = parent)
    IN  IF found = <<>> THEN MetaEnd(path, c1, "IndexError", 0, <<>>)
        ELSE
        LET index == found[1]
            children == Filter(listing.seq,
                               LAMBDA i : str(i.parentIdentifier) = parent)
            ritems == Map(get_items(idx, its, index),
                          LAMBDA e : WEKOItemMetadata(e, index, listing))
            rindices == Map(children, LAMBDA i : WEKOIndexMetadata(i, listing))
        IN  MetaEnd(path, Append(c1, Call("get_items", index.identifier,
                                          get_items(idx, its, index))),
                    "ok", 0, rindices \o ritems)

\* provider.py 176-186: the listing of the index that parent names
metadataListing(path, parent, listing, idx, its) ==
    LET c1 == <<Call("get_all_indices", 0, listing.seq)>>
        found == Filter(listing.seq, LAMBDA i : str(i.identifier) = parent)
    IN  IF found = <<>> THEN MetaEnd(path, c1, "IndexError", 0, <<>>)
        ELSE
        LET index == found[1]
            children == Filter(listing.seq,
                               LAMBDA i : str(i.parentIdentifier) = parent)
            index_urls == {about(children[k]) : k \in 1..Len(children)}
            ritems == Map(Filter(get_items(idx, its, index),
                                 LAMBDA e : about(e) \notin index_urls),
                          LAMBDA e : WEKOItemMetadata(e, index, listing))
            rindices == Map(children, LAMBDA i : WEKOIndexMetadata(i, listing))
        IN  MetaEnd(path, Append(c1, Call("get_items", index.identifier,
                                          get_items(idx, its, index))),
                    "ok", 0, rindices \o ritems)

\* metadata with a file path answered by the listing of the folder holding it
metadataOfParent(path, idx, its) ==
    LET listing == get_all_indices(idx, 1)
        segs == split(PathStr(path), "/")
    IN  metadataListing(path,
                        IF is_root(path) \/ ~HasFromEnd(segs, 2) THEN index_id
                        ELSE FromEnd(segs, 2),
                        listing, idx, its)

\* metadata raising for a file path without the status code
metadataUncoded(path, idx, its) ==
    LET listing == get_all_indices(idx, 1)
    IN  IF is_root(path) THEN metadataListing(path, index_id, listing, idx, its)
        ELSE IF path.is_dir
        THEN metadataListing(path, FromEnd(split(PathStr(path), "/"), 2), listing, idx, its)
        ELSE MetaEnd(path, <<Call("get_all_indices", 0, listing.seq)>>, "MetadataError", 0, <<>>)

metadata(path, idx, its) ==
    LET listing == get_all_indices(idx, 1)
    IN  IF is_root(path) THEN metadataListing(path, index_id, listing, idx, its)
        ELSE IF path.is_dir
        THEN metadataListing(path, FromEnd(split(PathStr(path), "/"), 2), listing, idx, its)
        ELSE MetaEnd(path, <<Call("get_all_indices", 0, listing.seq)>>, "MetadataError", 404, <<>>)

(***************************************************************************)
(* intra_move (provider.py 192-222)                                        *)
(***************************************************************************)
\* The value of intra_move: the call's result and the indices the backend
\* holds after it
MoveEnd(src_path, dest_path, calls, outcome, code, value, idx) ==
    [res |-> Result("intra_move", src_path, dest_path, NoOpts, calls, outcome, code, value),
     indices |-> idx]

\* The tail of intra_move with the metadata built from the listing fetched
\* before the update instead of a fresh one
MoveTailStale(src_path, dest_path, src_path_id, listing, target_index, parent_index, idx) ==
    LET c2 == <<Call("get_all_indices", 0, 0),
                Call("update_index", target_index.identifier, parent_index.identifier)>>
        idx2 == update_index(idx, target_index.identifier, parent_index.identifier)
    IN  MoveEnd(src_path, dest_path, c2, "ok", 0,
                <<WEKOIndexMetadata(target_index, listing)>>, idx2)

\* provider.py 215-222: the update call, the second listing, the metadata
MoveTail(src_path, dest_path, src_path_id, listing, target_index, parent_index, idx) ==
    LET c2 == <<Call("get_all_indices", 0, 0),
                Call("update_index", target_index.identifier, parent_index.identifier)>>
        idx2 == update_index(idx, target_index.identifier, parent_index.identifier)
        listing2 == get_all_indices(idx2, 3)
        c3 == Append(c2, Call("get_all_indices", 0, 0))
        found == Filter(listing2.seq, LAMBDA i : str(i.identifier) = src_path_id)
    IN  IF found = <<>> THEN MoveEnd(src_path, dest_path, c3, "IndexError", 0, <<>>, idx2)
        ELSE MoveEnd(src_path, dest_path, c3, "ok", 0,
                     <<WEKOIndexMetadata(found[1], listing2)>>, idx2)

intra_move(src_path, dest_path, idx) ==
    LET listing == get_all_indices(idx, 1)
        c1 == <<Call("get_all_indices", 0, 0)>>
        dsegs == split(PathStr(dest_path), "/")
    IN  IF ~is_root(src_path) /\ ~src_path.is_dir
        THEN MoveEnd(src_path, dest_path, c1, "MetadataError", 404, <<>>, idx)
        ELSE IF ~is_root(dest_path) /\ ~HasFromEnd(dsegs, 2)
        THEN MoveEnd(src_path, dest_path, c1, "IndexError", 0, <<>>, idx)
        ELSE
        LET src_path_id == IF is_root(src_path) THEN index_id
                           ELSE FromEnd(split(PathStr(src_path), "/"), 2)
            dest_path_id == IF is_root(dest_path) THEN index_id
                            ELSE FromEnd(dsegs, 2)
            target == Filter(listing.seq, LAMBDA i : str(i.identifier) = src_path_id)
            parent == Filter(listing.seq, LAMBDA i : str(i.identifier) = dest_path_id)
        IN  IF target = <<>> \/ parent = <<>>
            THEN MoveEnd(src_path, dest_path, c1, "IndexError", 0, <<>>, idx)
            ELSE MoveTail(src_path, dest_path, src_path_id, listing,
                          target[1], parent[1], idx)

(***************************************************************************)
(* revisions (provider.py 224-236)                                         *)
(***************************************************************************)
\* self._get_data(): the full metadata listing, one entry per item the
\* backend has indexed, in the backend's order
get_data(its) ==
    Map(Filter(its, LAMBDA it : it.indexed),
        LAMBDA it : [about |-> about(it),
                     extra |-> [fileId |-> it.fileId, datasetVersion |-> it.id]])

revisionsUnfiltered(path, its) ==
    Result("revisions", path, NoPath, NoOpts, <<Call("_get_data", 0, get_data(its))>>, "ok", 0,
           Map(get_data(its), LAMBDA m : WEKORevision(m.extra.datasetVersion)))

revisions(path, its) ==
    Result("revisions", path, NoPath, NoOpts, <<Call("_get_data", 0, get_data(its))>>, "ok", 0,
           Map(Filter(get_data(its), LAMBDA m : m.extra.fileId = path.identifier),
               LAMBDA m : WEKORevision(m.extra.datasetVersion)))

(***************************************************************************)
(* upload (provider.py 102-132)                                            *)
(***************************************************************************)
\* How an upload call ends: the backend calls it issued, the exception or
\* "ok", the metadata returned, the locator the post returned, the items the
\* backend holds afterwards
UploadEnd(calls, outcome, value, new_item_url, its) ==
    [calls |-> calls, outcome |-> outcome, value |-> value,
     new_item_url |-> new_item_url, items |-> its]

\* provider.py 125-132 with the listing entries not matched against the
\* posted item's id
uploadListingUnmatched(insert_index_id, new_item_url, c1, idx, its) ==
    LET listing == get_all_indices(idx, 2)
        c2 == Append(c1, Call("get_all_indices", 0, 0))
        found == Filter(listing.seq, LAMBDA i : str(i.identifier) = insert_index_id)
    IN  IF found = <<>> THEN UploadEnd(c2, "IndexError", <<>>, new_item_url, its)
        ELSE
        LET index == found[1]
            c3 == Append(c2, Call("get_items", index.identifier,
                                   get_items(idx, its, index)))
            nitems == Map(get_items(idx, its, index),
                          LAMBDA e : WEKOItemMetadata(e, index, listing))
        IN  IF nitems = <<>> THEN UploadEnd(c3, "IndexError", <<>>, new_item_url, its)
            ELSE UploadEnd(c3, "ok", <<nitems[1]>>, new_item_url, its)

\* provider.py 125-132: the listing after the post and the match on the item id
uploadListing(insert_index_id, new_item_url, c1, idx, its) ==
    LET listing == get_all_indices(idx, 2)
        c2 == Append(c1, Call("get_all_indices", 0, 0))
        found == Filter(listing.seq, LAMBDA i : str(i.identifier) = insert_index_id)
    IN  IF found = <<>> THEN UploadEnd(c2, "IndexError", <<>>, new_item_url, its)
        ELSE
        LET index == found[1]
            c3 == Append(c2, Call("get_items", index.identifier,
                                   get_items(idx, its, index)))
            nitems == Map(Filter(get_items(idx, its, index),
                                 LAMBDA e : itemId(about(e)) = itemId(new_item_url)),
                          LAMBDA e : WEKOItemMetadata(e, index, listing))
        IN  IF nitems = <<>> THEN UploadEnd(c3, "IndexError", <<>>, new_item_url, its)
            ELSE UploadEnd(c3, "ok", <<nitems[1]>>, new_item_url, its)

\* TemporaryFile() (line 113): an empty file positioned at its start
TemporaryFile == [data |-> <<>>, pos |-> 0]

\* f.write(chunk) (line 117): the chunk goes in at the position, over what is
\* there, and the position moves past it
write(f, chunk) ==
    [data |-> SubSeq(f.data, 1, f.pos) \o chunk
              \o SubSeq(f.data, f.pos + Len(chunk) + 1, Len(f.data)),
     pos |-> f.pos + Len(chunk)]

\* Line 120 without the rewind
seekStay(f, offset) == f

\* f.seek(0) (line 120)
seek(f, offset) == [f EXCEPT !.pos = offset]

\* The file identifier of the logical file a destination path names
FileIdFor(path) == IF Len(path.parts) = 1 THEN "f1" ELSE "f2"

\* provider.py 120-132, run once the stream is exhausted: f holds the bytes
\* read, the backend accepts the post or not and has indexed the new item by
\* the time of the listing or not
uploadTail(path, f, stream_size, idx, its, id, accepted, indexed) ==
    LET segs == split(PathStr(path), "/")
        insert_index_id == IF \A k \in 1..Len(PathStr(path)) : PathStr(path)[k] # "/"
                           THEN index_id
                           ELSE FromEnd(segs, 2)
        c1 == <<Call("post", insert_index_id,
                     [f |-> seek(f, 0), stream_size |-> stream_size])>>
        target == Filter(idx, LAMBDA i : str(i.identifier) = insert_index_id)
    IN  IF ~accepted \/ target = <<>>
        THEN UploadEnd(c1, "PostError", <<>>, NoUrl, its)
        ELSE uploadListing(insert_index_id, ItemUrl(id), c1, idx,
                           client_post(its, id, target[1].identifier, FileIdFor(path), indexed))

(***************************************************************************)
(* The metadata model (waterbutler.core.metadata and the nextcloud         *)
(* metadata classes), as tests/providers/nextcloud/test_metadata.py uses it*)
(***************************************************************************)
Absent == <<None>>

\* An RFC-1123 date and the ISO-8601 UTC rendering of the same instant
rfc1123(t) == <<"rfc1123", t>>
iso8601(t) == <<"iso8601", t>>

\* modified_utc: the modified date parsed and rendered in ISO-8601, absent
\* when the date is
modified_utc(modified) ==
    IF modified = Absent THEN Absent ELSE iso8601(modified[2])

\* A file metadata object: extra carries the hashes under the provider's name
FileMetadata(provider, materialized_path, modified, hashes) ==
    [kind |-> "file", provider |-> provider, materialized_path |-> materialized_path,
     modified |-> modified, modified_utc |-> modified_utc(modified),
     extra |-> [hashes |-> [p \in {provider} |-> hashes]]]

FolderMetadata(provider, materialized_path) ==
    [kind |-> "folder", provider |-> provider, materialized_path |-> materialized_path,
     modified |-> Absent, modified_utc |-> Absent, extra |-> <<>>]

\* A URL: the path segments after the domain and the query string
Url(segments, query) == [segments |-> segments, query |-> query]

\* _entity_url(resource): v1/resources/<resource>/providers/<provider>
\* followed by the segments of the path after the leading separator
entity_url(meta, resource) ==
    Url(<<<<"v1">>, <<"resources">>, <<resource>>, <<"providers">>, <<meta.provider>>>>
          \o Tail(split(meta.materialized_path, "/")), "")

WithQuery(url, query) == [url EXCEPT !.query = query]

\* The links with the upload link left without its kind
json_api_links_unsuffixed(meta, resource) ==
    LET url == entity_url(meta, resource)
    IN  IF meta.kind = "file"
        THEN [a \in {"delete", "download", "move", "upload"} |-> url]
        ELSE [a \in {"delete", "move", "new_folder", "upload"} |->
                 IF a = "new_folder" THEN WithQuery(url, "kind=folder") ELSE url]

\* _json_api_links(resource)
json_api_links(meta, resource) ==
    LET url == entity_url(meta, resource)
    IN  IF meta.kind = "file"
        THEN [a \in {"delete", "download", "move", "upload"} |->
                 IF a = "upload" THEN WithQuery(url, "kind=file") ELSE url]
        ELSE [a \in {"delete", "move", "new_folder", "upload"} |->
                 IF a = "upload" THEN WithQuery(url, "kind=file")
                 ELSE IF a = "new_folder" THEN WithQuery(url, "kind=folder")
                 ELSE url]

\* A revision object as its constructor builds it from the version token, the
\* modification date and the two digests a revision tracks
RevisionMetadata(version, modified, md5, sha256) ==
    [version_identifier |-> "revision", version |-> version,
     modified |-> modified, modified_utc |-> modified_utc(modified),
     extra |-> [hashes |-> [a \in {"md5", "sha256"} |->
                               IF a = "md5" THEN md5 ELSE sha256]]]

\* from_metadata copying every hash of the file
from_metadata_all_hashes(provider, version, file_meta) ==
    [version_identifier |-> "revision", version |-> version,
     modified |-> file_meta.modified, modified_utc |-> modified_utc(file_meta.modified),
     extra |-> [hashes |-> file_meta.extra.hashes[provider]]]

\* RevisionMetadata.from_metadata(provider, version, file_meta)
from_metadata(provider, version, file_meta) ==
    RevisionMetadata(version, file_meta.modified,
                     file_meta.extra.hashes[provider]["md5"],
                     file_meta.extra.hashes[provider]["sha256"])

(***************************************************************************)
(* Arguments the calls are made with                                       *)
(***************************************************************************)
Seg(n) == str(n)
ItemSeg(n) == ItemWord \o str(n)

Root == Path(<<>>, TRUE, None)

FolderPaths ==
    {Root, Path(<<Seg(2)>>, TRUE, None), Path(<<Seg(3)>>, TRUE, None),
     Path(<<Seg(2), Seg(3)>>, TRUE, None), Path(<<Seg(9)>>, TRUE, None)}

FilePaths ==
    {Path(<<ItemSeg(1)>>, FALSE, None), Path(<<Seg(1), ItemSeg(1)>>, FALSE, None),
     Path(<<Seg(2), ItemSeg(1)>>, FALSE, None), Path(<<Seg(2), ItemSeg(2)>>, FALSE, None),
     Path(<<Seg(2), <<"f">>>>, FALSE, None), Path(<<Seg(2), ItemWord>>, FALSE, None),
     Path(<<Seg(9), ItemSeg(1)>>, FALSE, None)}

DeletePaths == FilePaths \cup {Path(<<Seg(2)>>, TRUE, None)}

MetadataPaths == FolderPaths \cup {Path(<<Seg(2), ItemSeg(1)>>, FALSE, None)}

\* Paths a caller resolved to a backend file identifier, or did not
IdPaths ==
    {Path(<<Seg(2), ItemSeg(1)>>, FALSE, i) : i \in {None} \cup FileIds}

DownloadPaths == {p \in IdPaths : p.identifier # "f2"}

\* Destinations of a move: as revalidate_path builds them (a file path under
\* the destination folder) and the root
DestPaths ==
    {Root, Path(<<Seg(2)>>, FALSE, None), Path(<<Seg(3), Seg(2)>>, FALSE, None),
     Path(<<Seg(9), Seg(2)>>, FALSE, None)}

SrcPaths ==
    {Root, Path(<<Seg(2)>>, TRUE, None), Path(<<Seg(9)>>, TRUE, None),
     Path(<<Seg(2), ItemSeg(1)>>, FALSE, None)}

UploadPaths ==
    {Path(<<<<"f">>>>, FALSE, None), Path(<<Seg(2), <<"f">>>>, FALSE, None),
     Path(<<Seg(9), <<"f">>>>, FALSE, None)}

\* Streams: the chunks successive reads return before the empty one
Streams == {<<>>, <<<<1>>>>, <<<<1>>, <<2, 3>>>>}

Callers == {"a", "b"}

(***************************************************************************)
(* State machine                                                           *)
(***************************************************************************)
Idle == [pc |-> "idle"]

Init ==
    /\ indices = <<Index(1, 0), Index(2, 1), Index(3, 1)>>
    /\ items = <<>>
    /\ nextItem = 1
    /\ last = NoResult
    /\ up = [c \in Callers |-> Idle]
    /\ metadata_cache = <<>>

\* Another client of the repository posts an item
BackendPost ==
    /\ nextItem <= MaxItems
    /\ \E e \in {<<1, "f1">>, <<2, "f1">>, <<2, "f2">>} :
          items' = client_post(items, nextItem, e[1], e[2], TRUE)
    /\ nextItem' = nextItem + 1
    /\ UNCHANGED <<indices, last, up, metadata_cache>>

\* The backend finishes indexing an item it accepted
BackendIndex ==
    /\ \E k \in 1..Len(items) :
          /\ ~items[k].indexed
          /\ items' = [items EXCEPT ![k].indexed = TRUE]
    /\ UNCHANGED <<indices, nextItem, last, up, metadata_cache>>

Download ==
    /\ \E path \in DownloadPaths, revision \in Revisions, range \in Ranges,
          status \in Statuses :
          last' = download(path, revision, range, status)
    /\ UNCHANGED <<indices, items, nextItem, up, metadata_cache>>

Delete ==
    /\ \E path \in DeletePaths :
          LET r == delete(path, indices, items)
          IN  last' = r.res /\ items' = r.items
    /\ UNCHANGED <<indices, nextItem, up, metadata_cache>>

\* metadata answering from self._metadata_cache when it holds the path
MetadataCached ==
    \E path \in MetadataPaths :
        IF path \in DOMAIN metadata_cache
        THEN /\ last' = metadata_cache[path]
             /\ UNCHANGED <<indices, items, nextItem, up, metadata_cache>>
        ELSE /\ last' = metadata(path, indices, items)
             /\ metadata_cache' = (path :> metadata(path, indices, items)) @@ metadata_cache
             /\ UNCHANGED <<indices, items, nextItem, up>>

Metadata ==
    /\ \E path \in MetadataPaths :
          last' = metadata(path, indices, items)
    /\ UNCHANGED <<indices, items, nextItem, up, metadata_cache>>

IntraMove ==
    /\ \E src_path \in SrcPaths, dest_path \in DestPaths :
          LET r == intra_move(src_path, dest_path, indices)
          IN  last' = r.res /\ indices' = r.indices
    /\ UNCHANGED <<items, nextItem, up, metadata_cache>>

RevisionsCall ==
    /\ \E path \in IdPaths : last' = revisions(path, items)
    /\ UNCHANGED <<indices, items, nextItem, up, metadata_cache>>

\* upload is called: the temporary file is created (line 113) and the call
\* suspends in its first stream.read() (line 115)
UploadCall(c) ==
    /\ up[c].pc = "idle"
    /\ \E path \in UploadPaths, stream \in Streams :
          up' = [up EXCEPT ![c] =
                    [pc |-> "reading", path |-> path, given |-> stream,
                     stream |-> stream, f |-> TemporaryFile, stream_size |-> 0, closed |-> FALSE, calls |-> <<>>,
                     outcome |-> "none", value |-> <<>>, new_item_url |-> NoUrl]]
    /\ UNCHANGED <<indices, items, nextItem, last, metadata_cache>>

\* A read returns a chunk: it is written to the file and the call suspends in
\* the next read (lines 116-119)
UploadRead(c) ==
    /\ up[c].pc = "reading"
    /\ up[c].stream # <<>>
    /\ up' = [up EXCEPT ![c].f = write(@, Head(up[c].stream)),
                        ![c].stream_size = @ + Len(Head(up[c].stream)),
                        ![c].stream = Tail(@)]
    /\ UNCHANGED <<indices, items, nextItem, last, metadata_cache>>

\* A read raises: the exception leaves upload, whose frame the traceback
\* keeps alive together with the open file
UploadReadFails(c) ==
    /\ up[c].pc = "reading"
    /\ up' = [up EXCEPT ![c].pc = "done", ![c].outcome = "StreamError"]
    /\ UNCHANGED <<indices, items, nextItem, last, metadata_cache>>

\* A read returns the empty chunk: lines 120-132 run without suspension. The
\* code never closes the file: after a return it is closed only when the
\* interpreter reclaims it at once, after an exception it is still open
UploadFinish(c) ==
    /\ up[c].pc = "reading"
    /\ up[c].stream = <<>>
    /\ \E accepted \in BOOLEAN, indexed \in BOOLEAN, reclaimed \in BOOLEAN :
          LET r == uploadTail(up[c].path, up[c].f, up[c].stream_size, indices, items,
                              nextItem, accepted, indexed)
          IN  /\ up' = [up EXCEPT ![c].pc = "done", ![c].calls = r.calls,
                                  ![c].outcome = r.outcome, ![c].value = r.value,
                                  ![c].new_item_url = r.new_item_url,
                                  ![c].closed = (r.outcome = "ok" /\ reclaimed)]
              /\ items' = r.items
              /\ nextItem' = IF r.new_item_url = NoUrl THEN nextItem ELSE nextItem + 1
    /\ UNCHANGED <<indices, last, metadata_cache>>

\* The interpreter reclaims the file of a call that has exited
Collect(c) ==
    /\ up[c].pc = "done"
    /\ ~up[c].closed
    /\ up' = [up EXCEPT ![c].closed = TRUE]
    /\ UNCHANGED <<indices, items, nextItem, last, metadata_cache>>

\* The metadata objects and arguments of the metadata model's calls
Providers == {"nextcloud", "weko"}
Resources == {"guid0", "guid1"}
Versions == {"a3c411808d58977a9ecd7485b5b7958e", "v2"}

FileMaterialized ==
    {<<"/", "Documents", "/", "dissertation.aux">>, <<"/", "dissertation.aux">>}
FolderMaterialized == {<<"/">>, <<"/", "Documents", "/">>}

Modifieds == {Absent, rfc1123(1), rfc1123(2)}

HashSets ==
    {[a \in {"md5", "sha256", "sha512"} |-> <<a, 1>>],
     [a \in {"md5", "sha256", "sha512"} |-> <<a, 2>>],
     [a \in {"md5", "sha256"} |-> <<a, 1>>]}

FileObjects ==
    {FileMetadata(p, m, t, h) :
        p \in Providers, m \in FileMaterialized, t \in Modifieds, h \in HashSets}

FolderObjects == {FolderMetadata(p, m) : p \in Providers, m \in FolderMaterialized}

JsonApiLinks ==
    /\ \E meta \in FileObjects \cup FolderObjects, resource \in Resources :
          last' = Result("json_api_links", NoPath, NoPath, <<meta, resource>>, <<>>,
                         "ok", 0, <<json_api_links(meta, resource)>>)
    /\ UNCHANGED <<indices, items, nextItem, up, metadata_cache>>

FromMetadata ==
    /\ \E file_meta \in FileObjects, version \in Versions :
          last' = Result("from_metadata", NoPath, NoPath, <<file_meta, version>>, <<>>,
                         "ok", 0, <<from_metadata(file_meta.provider, version, file_meta)>>)
    /\ UNCHANGED <<indices, items, nextItem, up, metadata_cache>>

Next ==
    \/ BackendPost
    \/ Download
    \/ Delete
    \/ Metadata
    \/ IntraMove
    \/ RevisionsCall

Spec == Init /\ [][Next]_vars

NextUpload ==
    \/ BackendIndex
    \/ \E c \in Callers : UploadCall(c)
    \/ \E c \in Callers : UploadRead(c)
    \/ \E c \in Callers : UploadReadFails(c)
    \/ \E c \in Callers : UploadFinish(c)
    \/ \E c \in Callers : Collect(c)

SpecUpload == Init /\ [][NextUpload]_vars

\* One upload caller together with metadata, delete and intra_move
NextFresh ==
    \/ BackendIndex
    \/ UploadCall("a")
    \/ UploadRead("a")
    \/ UploadFinish("a")
    \/ Metadata
    \/ Delete
    \/ IntraMove

SpecFresh == Init /\ [][NextFresh]_vars

NextMeta ==
    \/ JsonApiLinks
    \/ FromMetadata

SpecMeta == Init /\ [][NextMeta]_vars

(***************************************************************************)
(* Claims about download, delete, metadata, intra_move and revisions,      *)
(* checked under Spec                                                      *)
(***************************************************************************)
CallsOf(r, fn) == {k \in 1..Len(r.calls) : r.calls[k].fn = fn}

IsFile(p) == ~is_root(p) /\ ~p.is_dir

\* The index a listing holds under the identifier a path segment spells
Named(idx, seg) == {idx[k].identifier : k \in {j \in 1..Len(idx) : str(idx[j].identifier) = seg}}

\* C1: a download of a path without identifier ends with NotFoundError and
\* has issued no backend request, whatever the revision and the range.
C1_DownloadNeedsIdentifier ==
    (last.op = "download" /\ last.path.identifier = None)
        => (last.outcome = "NotFoundError" /\ last.calls = <<>>)

C1_Witness ==
    /\ last.op = "download"
    /\ last.path.identifier = None
    /\ last.opts = <<"latest", "0-1">>
    /\ last.outcome = "NotFoundError"

\* C5 as stated: metadata returns a sequence of metadata objects for a
\* folder and a single file metadata object for a file.
C5_AsStated ==
    last.op = "metadata" =>
        /\ IsFile(last.path) =>
              (last.outcome = "ok" /\ Len(last.value) = 1 /\ last.value[1].kind = "file")
        /\ (~IsFile(last.path)
              /\ Named(indices, IF is_root(last.path) THEN index_id
                                ELSE last.path.parts[Len(last.path.parts)]) # {}) =>
              (/\ last.outcome = "ok"
               /\ \A k \in 1..Len(last.value) : last.value[k].kind \in {"file", "folder"})

\* C5 amended: metadata returns a sequence of file and folder metadata
\* objects for the root and for a folder whose index the backend lists, and
\* for a file path it raises MetadataError with code 404 and returns nothing.
C5_MetadataByShape ==
    last.op = "metadata" =>
        /\ IsFile(last.path) =>
              (last.outcome = "MetadataError" /\ last.code = 404 /\ last.value = <<>>)
        /\ (~IsFile(last.path)
              /\ Named(indices, IF is_root(last.path) THEN index_id
                                ELSE last.path.parts[Len(last.path.parts)]) # {}) =>
              (/\ last.outcome = "ok"
               /\ \A k \in 1..Len(last.value) : last.value[k].kind \in {"file", "folder"})

C5_Witness ==
    /\ last.op = "metadata"
    /\ last.path.is_dir
    /\ last.outcome = "ok"
    /\ \E j, k \in 1..Len(last.value) :
          last.value[j].kind = "folder" /\ last.value[k].kind = "file"

\* C6: a delete whose trailing path segment does not start with 'item' ends
\* with an assertion failure and has issued no backend call: no listing was
\* fetched and nothing was deleted.
C6_DeleteAssertsShape ==
    (last.op = "delete"
        /\ ~startswith(FromEnd(split(PathStr(last.path), "/"), 1), ItemWord))
        => (last.outcome = "AssertionError" /\ last.calls = <<>>)

C6_Witness ==
    /\ last.op = "delete"
    /\ last.path = Path(<<Seg(2), <<"f">>>>, FALSE, None)
    /\ last.outcome = "AssertionError"
    /\ items # <<>>

\* C7: an intra_move issues at most one relationship-update call; a move
\* that returns issued exactly one, which made the index the destination
\* names the parent of the index the source names, and the metadata it
\* returns was built from a listing fetched after that call.
C7_MoveRefetches ==
    last.op = "intra_move" =>
        /\ Cardinality(CallsOf(last, "update_index")) <= 1
        /\ last.outcome = "ok" =>
              \E k \in CallsOf(last, "update_index") :
                 /\ CallsOf(last, "update_index") = {k}
                 /\ last.calls[k].a \in
                       Named(indices, IF is_root(last.path) THEN index_id
                                      ELSE last.path.parts[Len(last.path.parts)])
                 /\ last.calls[k].b \in
                       Named(indices, IF is_root(last.dest) THEN index_id
                                      ELSE FromEnd(split(PathStr(last.dest), "/"), 2))
                 /\ Len(last.value) = 1
                 /\ last.value[1].stamp \in CallsOf(last, "get_all_indices")
                 /\ last.value[1].stamp > k
                 /\ last.value[1].about = IndexUrl(last.calls[k].a)
                 /\ last.value[1].parent = last.calls[k].b

C7_Witness ==
    /\ last.op = "intra_move"
    /\ last.outcome = "ok"
    /\ last.path = Path(<<Seg(2)>>, TRUE, None)
    /\ last.dest = Path(<<Seg(3), Seg(2)>>, FALSE, None)
    /\ last.value[1].parent = 3
    /\ \E k \in 1..Len(indices) : indices[k] = Index(2, 3)

\* One revision per entry of the full listing whose file identifier is the
\* path's identifier, in the order of the listing
C8_OnePerMatch ==
    last.op = "revisions" =>
        LET listing == last.calls[1].b
            matching == {k \in 1..Len(listing) :
                            listing[k].extra.fileId = last.path.identifier}
        IN  /\ Len(last.value) = Cardinality(matching)
            /\ \E at \in [1..Len(last.value) -> matching] :
                  /\ \A i, j \in 1..Len(last.value) : i < j => at[i] < at[j]
                  /\ \A i \in 1..Len(last.value) :
                        last.value[i] = WEKORevision(listing[at[i]].extra.datasetVersion)

\* Two successive calls for the same path that saw the same listing return
\* the same sequence
C8_Repeatable ==
    (/\ last.op = "revisions" /\ last'.op = "revisions"
     /\ last'.path = last.path
     /\ last'.calls[1].b = last.calls[1].b)
        => last'.value = last.value

Done(c) == up[c].pc = "done"

\* The call posted an item and the listing of its index fetched afterwards
\* held no entry with that item's id
NoMatchAfterPost(c) ==
    /\ Done(c)
    /\ up[c].new_item_url # NoUrl
    /\ \E k \in 1..Len(up[c].calls) :
          /\ up[c].calls[k].fn = "get_items"
          /\ \A j \in 1..Len(up[c].calls[k].b) :
                itemId(about(up[c].calls[k].b[j])) # itemId(up[c].new_item_url)

\* C2: an upload that returns, returns the metadata of the item its own post
\* created, filed under the index it posted to, and not the item another
\* upload call posted under a different id.
C2_UploadReturnsOwnEntry ==
    \A c \in Callers :
        (Done(c) /\ up[c].outcome = "ok") =>
            /\ Len(up[c].value) = 1
            /\ up[c].value[1].kind = "file"
            /\ up[c].value[1].about = up[c].new_item_url
            /\ \E k \in 1..Len(items) :
                  /\ about(items[k]) = up[c].new_item_url
                  /\ items[k].index = up[c].value[1].parent
            /\ \A d \in Callers \ {c} :
                  (Done(d) /\ up[d].new_item_url # NoUrl
                     /\ itemId(up[d].new_item_url) # itemId(up[c].new_item_url))
                    => up[c].value[1].about # up[d].new_item_url

C2_Witness ==
    /\ \A c \in Callers : Done(c) /\ up[c].outcome = "ok"
    /\ up["a"].path = up["b"].path
    /\ up["a"].stream_size = 3 /\ up["b"].stream_size = 1
    /\ up["a"].new_item_url = ItemUrl(2) /\ up["b"].new_item_url = ItemUrl(1)
    /\ up["a"].value[1].about = ItemUrl(2) /\ up["b"].value[1].about = ItemUrl(1)

\* C3: when the backend accepted the post and the listing fetched afterwards
\* holds no entry with the new item's id, upload ends with
\* UploadConsistencyError; and an upload that returns, returns a metadata
\* object.
C3_ConsistencyFault ==
    \A c \in Callers :
        /\ NoMatchAfterPost(c) => up[c].outcome = "UploadConsistencyError"
        /\ (Done(c) /\ up[c].outcome = "ok") => up[c].value # <<>>

\* C4: the temporary file of an upload call is closed by the time the call
\* has exited, however it ended.
C4_BufferReleased ==
    \A c \in Callers : Done(c) => up[c].closed

(***************************************************************************)
(* Claims about the metadata model, checked under SpecMeta                 *)
(***************************************************************************)
\* C9: the links of a file have exactly the keys delete, download, move and
\* upload, those of a folder exactly delete, move, new_folder and upload;
\* every link is the one URL that the handle, the provider's name and the
\* materialized path determine, upload with the query kind=file and
\* new_folder with kind=folder, the others with none.
C9_Links ==
    last.op = "json_api_links" =>
        LET meta == last.opts[1]
            resource == last.opts[2]
            links == last.value[1]
            segments == <<<<"v1">>, <<"resources">>, <<resource>>, <<"providers">>,
                          <<meta.provider>>>>
                          \o Tail(split(meta.materialized_path, "/"))
        IN  /\ DOMAIN links = IF meta.kind = "file"
                              THEN {"delete", "download", "move", "upload"}
                              ELSE {"delete", "move", "new_folder", "upload"}
            /\ \A a \in DOMAIN links :
                  /\ links[a].segments = segments
                  /\ links[a].query = IF a = "upload" THEN "kind=file"
                                      ELSE IF a = "new_folder" THEN "kind=folder"
                                      ELSE ""

C9_Witness ==
    /\ last.op = "json_api_links"
    /\ last.opts[1].kind = "folder"
    /\ last.opts[1].materialized_path = <<"/">>
    /\ last.opts[2] = "guid0"
    /\ last.value[1]["new_folder"] =
          Url(<<<<"v1">>, <<"resources">>, <<"guid0">>, <<"providers">>,
                <<last.opts[1].provider>>, <<>>>>, "kind=folder")

\* C10 as stated: the revision from_metadata builds has the file's modified,
\* modified_utc and hashes, the version given and the identifier 'revision'.
C10_AsStated ==
    last.op = "from_metadata" =>
        LET file_meta == last.opts[1]
            revision == last.value[1]
        IN  /\ revision.modified = file_meta.modified
            /\ revision.modified_utc = file_meta.modified_utc
            /\ revision.extra.hashes = file_meta.extra.hashes[file_meta.provider]
            /\ revision.version = last.opts[2]
            /\ revision.version_identifier = "revision"

\* C10 amended: the revision has the file's modified and modified_utc, of
\* the file's hashes the md5 and sha256 digests and no other, the version
\* given and the identifier 'revision'; it equals the revision object
\* constructed from those values.
C10_FromMetadata ==
    last.op = "from_metadata" =>
        LET file_meta == last.opts[1]
            hashes == file_meta.extra.hashes[file_meta.provider]
            revision == last.value[1]
        IN  /\ revision.modified = file_meta.modified
            /\ revision.modified_utc = file_meta.modified_utc
            /\ DOMAIN revision.extra.hashes = {"md5", "sha256"}
            /\ \A a \in {"md5", "sha256"} : revision.extra.hashes[a] = hashes[a]
            /\ revision.version = last.opts[2]
            /\ revision.version_identifier = "revision"
            /\ revision = [version_identifier |-> "revision", version |-> last.opts[2],
                           modified |-> file_meta.modified,
                           modified_utc |-> file_meta.modified_utc,
                           extra |-> [hashes |-> [a \in {"md5", "sha256"} |-> hashes[a]]]]

C10_Witness ==
    /\ last.op = "from_metadata"
    /\ "sha512" \in DOMAIN last.opts[1].extra.hashes[last.opts[1].provider]
    /\ last.opts[1].modified = rfc1123(1)
    /\ last.value[1].modified_utc = iso8601(1)
    /\ last.value[1].version = "a3c411808d58977a9ecd7485b5b7958e"
    /\ DOMAIN last.value[1].extra.hashes = {"md5", "sha256"}

(***************************************************************************)
(* Claims about the buffering of an upload, checked under SpecUpload       *)
(***************************************************************************)
RECURSIVE Concat(_)
\* The bytes of a sequence of chunks, in order
Concat(chunks) == IF chunks = <<>> THEN <<>> ELSE Head(chunks) \o Concat(Tail(chunks))

MaxDepth == 2      \* segments of a path revalidate_path still derives a child from

endswith(s, suffix) ==
    Len(s) >= Len(suffix) /\ SubSeq(s, Len(s) - Len(suffix) + 1, Len(s)) = suffix

\* s.strip(ch)
RECURSIVE strip(_, _)
strip(s, ch) ==
    IF s = <<>> THEN s
    ELSE IF Head(s) = ch THEN strip(Tail(s), ch)
    ELSE IF s[Len(s)] = ch THEN strip(SubSeq(s, 1, Len(s) - 1), ch)
    ELSE s

\* WEKOProvider.NAME
NAME == "weko"

\* WaterButlerPath(path): the segments of an absolute path, a folder when
\* the string ends with the separator, no identifier, no revision
WaterButlerPath(path) ==
    [parts |-> Filter(split(SliceFrom(path, 1), "/"), LAMBDA seg : seg # <<>>),
     is_dir |-> endswith(path, <<"/">>), identifier |-> None, revision |-> None]

\* base.child(name, _id=, folder=)
child(base, name, id, folder) ==
    [parts |-> Append(base.parts, name), is_dir |-> folder, identifier |-> id,
     revision |-> None]

\* How a path resolution ends
Resolved(op, base, opts, outcome, value) ==
    Result(op, base, NoPath, opts, <<>>, outcome, 0, value)

\* validate_path as the path model's contract has it for a backend with a
\* lookup by path: the identifier found is attached
validate_path_resolving(path, revision) ==
    IF ~startswith(path, <<"/">>)
    THEN Resolved("validate_path", NoPath, <<path, revision>>, "InvalidPathError", <<>>)
    ELSE Resolved("validate_path", NoPath, <<path, revision>>, "ok",
                  <<[WaterButlerPath(path) EXCEPT !.revision = revision,
                                                  !.identifier = "f1"]>>)

\* provider.py 59-67; WaterButlerPath rejects a path that is not absolute
validate_path(path, revision) ==
    IF ~startswith(path, <<"/">>)
    THEN Resolved("validate_path", NoPath, <<path, revision>>, "InvalidPathError", <<>>)
    ELSE Resolved("validate_path", NoPath, <<path, revision>>, "ok",
                  <<[WaterButlerPath(path) EXCEPT !.revision = revision]>>)

\* provider.py 69-73: line 71 passes folder=False whatever folder is
revalidate_path(base, path, folder, revision) ==
    LET wbpath == child(base, strip(path, "/"), None, FALSE)
    IN  Resolved("revalidate_path", base,
                 [path |-> path, folder |-> folder, revision |-> revision], "ok",
                 <<[wbpath EXCEPT !.revision = IF revision # None THEN revision
                                               ELSE base.revision]>>)

\* can_intra_move with the path test dropped
can_intra_move_any_path(dest_provider, path) == dest_provider = NAME

\* provider.py 188-190; dest_provider stands for dest_provider.NAME
can_intra_move(dest_provider, path) ==
    dest_provider = NAME /\ endswith(PathStr(path), <<"/">>)

\* The raw paths a caller asks validate_path about
RawPaths ==
    {<<"/">>, <<"/", "2", "/">>, <<"/", "2", "/", "i", "t", "e", "m", "1">>, <<"2", "/">>}

\* The segments a caller asks revalidate_path about
Segments == {<<"3">>, <<"/", "3", "/">>, ItemSeg(1)}

\* The path the caller holds after a call: the one a resolution returned, or
\* the one it passed to an operation, as the operation left it
Held(r) == IF r.op \in {"validate_path", "revalidate_path"} THEN r.value[1] ELSE r.path

Holds(r) == r.op # "none" /\ (r.op = "validate_path" => r.outcome = "ok")

ValidatePath ==
    /\ \E path \in RawPaths, revision \in Revisions :
          last' = validate_path(path, revision)
    /\ UNCHANGED <<indices, items, nextItem, up, metadata_cache>>

RevalidatePath ==
    /\ Holds(last)
    /\ Len(Held(last).parts) < MaxDepth
    /\ \E path \in Segments, folder \in BOOLEAN, revision \in Revisions :
          last' = revalidate_path(Held(last), path, folder, revision)
    /\ UNCHANGED <<indices, items, nextItem, up, metadata_cache>>

CanIntraMove ==
    /\ Holds(last)
    /\ \E dest_provider \in Providers :
          last' = Result("can_intra_move", Held(last), NoPath, <<dest_provider, None>>,
                         <<>>, "ok", 0, <<can_intra_move(dest_provider, Held(last))>>)
    /\ UNCHANGED <<indices, items, nextItem, up, metadata_cache>>

\* The operations on the path the caller holds
HeldDownload ==
    /\ Holds(last)
    /\ \E revision \in Revisions, range \in Ranges, status \in Statuses :
          last' = download(Held(last), revision, range, status)
    /\ UNCHANGED <<indices, items, nextItem, up, metadata_cache>>

HeldMetadata ==
    /\ Holds(last)
    /\ last' = metadata(Held(last), indices, items)
    /\ UNCHANGED <<indices, items, nextItem, up, metadata_cache>>

HeldDelete ==
    /\ Holds(last)
    /\ LET r == delete(Held(last), indices, items)
       IN  last' = r.res /\ items' = r.items
    /\ UNCHANGED <<indices, nextItem, up, metadata_cache>>

HeldIntraMove ==
    /\ Holds(last)
    /\ \E dest_path \in DestPaths :
          LET r == intra_move(Held(last), dest_path, indices)
          IN  last' = r.res /\ indices' = r.indices
    /\ UNCHANGED <<items, nextItem, up, metadata_cache>>

HeldRevisions ==
    /\ Holds(last)
    /\ last' = revisions(Held(last), items)
    /\ UNCHANGED <<indices, items, nextItem, up, metadata_cache>>

NextPath ==
    \/ ValidatePath
    \/ RevalidatePath
    \/ CanIntraMove
    \/ HeldDownload
    \/ HeldMetadata
    \/ HeldDelete
    \/ HeldIntraMove
    \/ HeldRevisions

SpecPath == Init /\ [][NextPath]_vars

(***************************************************************************)
(* Claims about path resolution and can_intra_move, checked under SpecPath *)
(***************************************************************************)
\* C12: can_intra_move answers true only for a destination provider of this
\* provider's own type and a path that is a folder.
C12_CanIntraMoveOnlyFolders ==
    (last.op = "can_intra_move" /\ last.value[1]) =>
        (last.opts[1] = "weko" /\ last.path.is_dir)

C12_Witness ==
    /\ last.op = "can_intra_move"
    /\ last.value[1]
    /\ last.path.parts = <<Seg(2)>>

(***************************************************************************)
(* Claims about the freshness of metadata, checked under SpecFresh         *)
(***************************************************************************)
\* The index a metadata call lists for a path
ListedBy(p) == IF is_root(p) THEN index_id ELSE p.parts[Len(p.parts)]

\* The locators of the entries of one kind in a sequence of metadata objects
Abouts(value, kind) == {value[k].about : k \in {j \in 1..Len(value) : value[j].kind = kind}}

\* Every metadata object a call returned carries the stamp of a listing that
\* same call fetched, and the provider's cache holds nothing
C13_BuiltInCall ==
    /\ metadata_cache = <<>>
    /\ last.op \in {"metadata", "intra_move"} =>
          \A k \in 1..Len(last.value) :
              last.value[k].stamp \in CallsOf(last, "get_all_indices")
    /\ \A c \in Callers :
          up[c].pc = "done" =>
              \A k \in 1..Len(up[c].value) :
                  up[c].value[k].stamp \in CallsOf(up[c], "get_all_indices")

\* A metadata call that returns, returns the child indices and the indexed
\* items the backend holds under the listed index when the call is made
C13_ReflectsBackend ==
    (last' # last /\ last'.op = "metadata" /\ last'.outcome = "ok") =>
        \E id \in Named(indices', ListedBy(last'.path)) :
            /\ Abouts(last'.value, "folder") =
                  {IndexUrl(indices'[k].identifier) :
                      k \in {j \in 1..Len(indices') : indices'[j].parentIdentifier = id}}
            /\ Abouts(last'.value, "file") =
                  {ItemUrl(items'[k].id) :
                      k \in {j \in 1..Len(items') :
                                items'[j].index = id /\ items'[j].indexed}}

\* C13: every metadata object returned by metadata, upload or intra_move is
\* built from a listing fetched during the same call, the provider's cache is
\* never written, and a metadata call made after an upload, a delete or a
\* move has completed shows the backend as that mutation left it.
C13_Fresh == [](C13_BuiltInCall) /\ [][C13_ReflectsBackend]_vars

C13_Witness ==
    /\ up["a"].pc = "done"
    /\ up["a"].outcome = "ok"
    /\ up["a"].new_item_url = ItemUrl(1)
    /\ last.op = "metadata"
    /\ last.path = Path(<<Seg(2)>>, TRUE, None)
    /\ last.outcome = "ok"
    /\ ItemUrl(1) \in Abouts(last.value, "file")
    /\ \E k \in 1..Len(indices) : indices[k] = Index(2, 3)

(***************************************************************************)
(* Further claims about metadata, delete and intra_move, checked under Spec*)
(***************************************************************************)
\* C14: metadata of a path that is neither the root nor a folder raises
\* MetadataError with status code 404, returns no metadata object and does
\* not ask the backend for the items of any index.
C14_UnsupportedShape ==
    (last.op = "metadata" /\ last.path.parts # <<>> /\ ~last.path.is_dir) =>
        /\ last.outcome = "MetadataError"
        /\ last.code = 404
        /\ last.value = <<>>
        /\ CallsOf(last, "get_items") = {}

C14_Witness ==
    /\ last.op = "metadata"
    /\ last.path = Path(<<Seg(2), ItemSeg(1)>>, FALSE, None)
    /\ last.outcome = "MetadataError"
    /\ \E k \in 1..Len(items) : items[k].id = 1 /\ items[k].index = 2

\* C15: a delete issues at most one backend delete call; it issues one only
\* after the listing of the index its second-to-last segment names, fetched
\* in the same call, showed an item whose id the trailing 'item<id>' segment
\* spells, and the call targets that id; a delete that issues none fails.
C15_DeleteTargets ==
    last.op = "delete" =>
        LET parts == last.path.parts
            dels == CallsOf(last, "delete")
        IN  /\ Cardinality(dels) <= 1
            /\ (last.outcome = "ok") <=> (dels # {})
            /\ \A k \in dels :
                  /\ Len(parts) >= 2
                  /\ \E j \in CallsOf(last, "get_items") :
                        /\ j < k
                        /\ str(last.calls[j].a) = parts[Len(parts) - 1]
                        /\ \E n \in 1..Len(last.calls[j].b) :
                              /\ last.calls[j].b[n].kind = "item"
                              /\ ItemWord \o str(last.calls[j].b[n].id) = parts[Len(parts)]
                              /\ last.calls[k].a = str(last.calls[j].b[n].id)

C15_Witness ==
    /\ last.op = "delete"
    /\ last.path = Path(<<Seg(2), ItemSeg(2)>>, FALSE, None)
    /\ last.outcome = "ok"
    /\ last.calls[3] = Call("delete", <<"2">>, 0)
    /\ \E k \in 1..Len(items) : items[k].id = 1
    /\ \A k \in 1..Len(items) : items[k].id # 2

(***************************************************************************)
(* Further claims about path resolution, checked under SpecPath            *)
(***************************************************************************)
\* C16: revalidate_path returns, without a backend call, the child of the
\* parent under the segment given; the child is a folder path, ending with
\* the separator, exactly when the folder argument is true.
C16_ChildShape ==
    last.op = "revalidate_path" =>
        LET wbpath == last.value[1]
        IN  /\ last.calls = <<>>
            /\ SubSeq(wbpath.parts, 1, Len(wbpath.parts) - 1) = last.path.parts
            /\ wbpath.is_dir = last.opts.folder
            /\ endswith(PathStr(wbpath), <<"/">>) = last.opts.folder

\* C18: a path validate_path or revalidate_path returns has no identifier,
\* the path a caller holds after any sequence of resolutions and operations
\* has none, and every download of such a path ends with NotFoundError
\* without a backend request.
C18_ResolvedPathsNotDownloadable ==
    /\ (last.op \in {"validate_path", "revalidate_path"} /\ last.outcome = "ok") =>
          last.value[1].identifier = None
    /\ Holds(last) => Held(last).identifier = None
    /\ last.op = "download" =>
          (last.outcome = "NotFoundError" /\ last.calls = <<>>)

C18_Witness ==
    /\ last.op = "download"
    /\ last.path.parts = <<Seg(2), ItemSeg(1)>>
    /\ last.path.revision = "latest"
    /\ ~last.path.is_dir
    /\ last.outcome = "NotFoundError"
    /\ \E k \in 1..Len(indices) : indices[k] = Index(2, 3)

(***************************************************************************)
(* Claims about intra_move against can_intra_move, checked under Spec      *)
(***************************************************************************)
\* C17: an intra_move of a source path for which can_intra_move answers
\* false, the destination provider being of this provider's own type, fails
\* with MetadataError and has issued no relationship-update call.
C17_MoveHonoursCanIntraMove ==
    (last.op = "intra_move" /\ ~can_intra_move(NAME, last.path)) =>
        /\ last.outcome = "MetadataError"
        /\ CallsOf(last, "update_index") = {}

(***************************************************************************)
(* Claim about the order and the kinds of a metadata listing, checked      *)
(* under Spec                                                              *)
(***************************************************************************)
\* C19: a metadata call that returns has listed the index its path names;
\* it returns first one folder entry per index of the listing whose parent is
\* the listed index, in the listing's order, then one file entry per entry of
\* the listed index whose locator is not that of one of those child indices,
\* and no locator is both a folder entry's and a file entry's.
C19_FoldersThenFiles ==
    (last.op = "metadata" /\ last.outcome = "ok") =>
        LET listing == last.calls[1].b
            listed == last.calls[2].a
            entries == last.calls[2].b
            children == {k \in 1..Len(listing) : listing[k].parentIdentifier = listed}
            child_urls == {IndexUrl(listing[k].identifier) : k \in children}
            files == {k \in 1..Len(entries) : about(entries[k]) \notin child_urls}
            n == Cardinality(children)
        IN  /\ str(listed) = ListedBy(last.path)
            /\ Len(last.value) = n + Cardinality(files)
            /\ \E at \in [1..n -> children] :
                  /\ \A i, j \in 1..n : i < j => at[i] < at[j]
                  /\ \A i \in 1..n :
                        /\ last.value[i].kind = "folder"
                        /\ last.value[i].about = IndexUrl(listing[at[i]].identifier)
            /\ \E at \in [1..Cardinality(files) -> files] :
                  /\ \A i, j \in 1..Cardinality(files) : i < j => at[i] < at[j]
                  /\ \A i \in 1..Cardinality(files) :
                        /\ last.value[n + i].kind = "file"
                        /\ last.value[n + i].about = about(entries[at[i]])
            /\ Abouts(last.value, "folder") \cap Abouts(last.value, "file") = {}

C19_Witness ==
    /\ last.op = "metadata"
    /\ last.outcome = "ok"
    /\ is_root(last.path)
    /\ Len(last.calls[2].b) = 4
    /\ Len(last.value) = 4
    /\ last.value[1].about = IndexUrl(2)
    /\ last.value[2].about = IndexUrl(3)
    /\ last.value[3].about = ItemUrl(1)
    /\ last.value[4].about = ItemUrl(2)

=============================================================================
